---- MODULE Spec2Model ----
(***************************************************************************)
(* Model of tutor_agent.quiz.QuizSession: question setup, the adaptive     *)
(* difficulty loop of ask(), answer grading and the summary.               *)
(*                                                                         *)
(* Strings are sequences of one-character strings.  A chunk of notes is    *)
(* represented by what the quiz code reads from it: its whitespace word    *)
(* count, its longest sentence and whether its lowercase form contains     *)
(* the lowercase topic.                                                    *)
(***************************************************************************)
EXTENDS Integers, Sequences, FiniteSets, TLC

(* ------------------------------ bounds --------------------------------- *)
MaxChunks == 3      \* chunks handed to _prepare_questions
MaxNum    == 3      \* largest num_questions passed to ask
MaxCalls  == 2      \* ask calls made on one session

(* --------------------------- string helpers ---------------------------- *)
Whitespace == {" ", "\n"}
Alnum      == {"a", "b", "A", "B"}

\* str.lower() on one character
LowerChar(c) == IF c = "A" THEN "a" ELSE IF c = "B" THEN "b" ELSE c

\* str.lower()
lower(s) == [k \in 1..Len(s) |-> LowerChar(s[k])]

RECURSIVE lstrip(_)
lstrip(s) == IF s # <<>> /\ Head(s) \in Whitespace THEN lstrip(Tail(s)) ELSE s

RECURSIVE rstrip(_)
rstrip(s) ==
    IF s # <<>> /\ s[Len(s)] \in Whitespace
    THEN rstrip(SubSeq(s, 1, Len(s) - 1))
    ELSE s

\* str.strip()
strip(s) == rstrip(lstrip(s))

\* str.split(): the maximal runs of non-whitespace characters, in order
RECURSIVE split(_, _, _)
split(s, cur, acc) ==
    IF s = <<>>
    THEN IF cur = <<>> THEN acc ELSE Append(acc, cur)
    ELSE IF Head(s) \in Whitespace
         THEN split(Tail(s), <<>>, IF cur = <<>> THEN acc ELSE Append(acc, cur))
         ELSE split(Tail(s), Append(cur, Head(s)), acc)

\* re.sub(r"[^A-Za-z0-9]", "", w)
OnlyAlnum(w) == SelectSeq(w, LAMBDA c : c \in Alnum)

\* max(seq, key=len) of a non-empty sequence: the first maximal element
RECURSIVE LongestFrom(_, _)
LongestFrom(seq, best) ==
    IF seq = <<>> THEN best
    ELSE LongestFrom(Tail(seq), IF Len(Head(seq)) > Len(best) THEN Head(seq) ELSE best)

Longest(seq) == LongestFrom(Tail(seq), Head(seq))

(* ------------------ difflib.SequenceMatcher(None, a, b) ---------------- *)
\* length of the common run of a from i and b from j, inside [.., ahi) x [.., bhi)
\* (0-based half-open bounds as in difflib; the sequences are 1-based)
RECURSIVE RunLen(_, _, _, _, _, _)
RunLen(a, b, i, j, ahi, bhi) ==
    IF i < ahi /\ j < bhi /\ a[i + 1] = b[j + 1]
    THEN 1 + RunLen(a, b, i + 1, j + 1, ahi, bhi)
    ELSE 0

\* find_longest_match: <<i, j, k>> with k maximal, then i minimal, then j minimal
find_longest_match(a, b, alo, ahi, blo, bhi) ==
    LET Cand == {<<i, j>> : i \in alo..(ahi - 1), j \in blo..(bhi - 1)}
        K(p) == RunLen(a, b, p[1], p[2], ahi, bhi)
        Best == {p \in Cand : /\ K(p) > 0
                              /\ \A r \in Cand :
                                    \/ K(r) < K(p)
                                    \/ /\ K(r) = K(p)
                                       /\ \/ r[1] > p[1]
                                          \/ r[1] = p[1] /\ r[2] >= p[2]}
    IN  IF Best = {} THEN <<alo, blo, 0>>
        ELSE LET p == CHOOSE x \in Best : TRUE IN <<p[1], p[2], K(p)>>

\* sum of the sizes of get_matching_blocks(); m is the one longest match of
\* the range, found once
RECURSIVE Matches(_, _, _, _, _, _)
Matches(a, b, alo, ahi, blo, bhi) ==
    CHOOSE total \in
        { IF m[3] = 0 THEN 0
          ELSE m[3]
               + Matches(a, b, alo, m[1], blo, m[2])
               + Matches(a, b, m[1] + m[3], ahi, m[2] + m[3], bhi) :
          m \in {find_longest_match(a, b, alo, ahi, blo, bhi)} } : TRUE

\* ratio() >= 0.6, with ratio = 2.0 * matches / (len(a) + len(b))
RatioAtLeastSixTenths(a, b) ==
    LET matches == Matches(a, b, 0, Len(a), 0, Len(b))
        length  == Len(a) + Len(b)
    IN  IF length = 0 THEN TRUE ELSE 10 * matches >= 3 * length

\* QuizSession._check_answer
_check_answer(user, correct) ==
    CHOOSE result \in
        { IF user_norm = <<>> \/ correct_norm = <<>> THEN FALSE
          ELSE RatioAtLeastSixTenths(user_norm, correct_norm) :
          user_norm \in {lower(strip(user))},
          correct_norm \in {lower(strip(correct))} } : TRUE

(* --------------------------- question setup ---------------------------- *)
\* A chunk as _prepare_questions reads it:
\*   sentences   re.split(r"(?<=[.!?])\s+", chunk)
\*   word_count  len(chunk.split())
\*   has_topic   "t" in chunk.lower()
Chunk(sentences, word_count, has_topic) ==
    [sentences |-> sentences, word_count |-> word_count, has_topic |-> has_topic]

ChunkPool ==
    { Chunk(<<<<"a", "b">>>>, 40, TRUE),
      Chunk(<<<<"A", ".">>, <<"a", "b", ".">>>>, 100, FALSE),
      Chunk(<<<<"a", "b", ".">>>>, 101, TRUE),
      Chunk(<<<<".", ".">>>>, 2, TRUE) }

Topics == {"None", "t"}

Levels == 0..2

\* the Question dataclass; id stands for the identity of the object: its number
\* in the order of creation
Question(id, text, answer, difficulty) ==
    [id |-> id, text |-> text, answer |-> answer, difficulty |-> difficulty]

\* value of a name that is not bound to a Question
NoQuestion == Question(0, <<>>, <<>>, 0)

None == <<>>

\* QuizSession._generate_question_from_chunk: None or <<question, answer, diff_score>>
_generate_question_from_chunk(self_chunk) ==
    LET sentences == SelectSeq([k \in 1..Len(self_chunk.sentences) |->
                                    strip(self_chunk.sentences[k])],
                               LAMBDA x : x # <<>>)
    IN  IF sentences = <<>> THEN None
        ELSE LET sentence == Longest(sentences)
                 tokens   == split(sentence, <<>>, <<>>)
                 words    == SelectSeq([k \in 1..Len(tokens) |-> OnlyAlnum(tokens[k])],
                                       LAMBDA w : w # <<>>)
             IN  IF words = <<>> THEN None
                 ELSE <<Longest(words), strip(sentence), self_chunk.word_count>>

\* variant of _difficulty_from_length: the limits 40 and 100 belong to the
\* level above
_difficulty_from_length_strict(word_count) ==
    IF word_count < 40 THEN 0
    ELSE IF word_count < 100 THEN 1
    ELSE 2

\* QuizSession._difficulty_from_length
_difficulty_from_length(word_count) ==
    IF word_count <= 40 THEN 0
    ELSE IF word_count <= 100 THEN 1
    ELSE 2

\* the loop of _prepare_questions over chunks[k..], appending to the buckets
RECURSIVE _prepare_from(_, _, _, _)
_prepare_from(chunks, topic, k, buckets) ==
    IF k > Len(chunks) THEN buckets
    ELSE LET chunk == chunks[k]
             qa    == _generate_question_from_chunk(chunk)
         IN  IF topic # "None" /\ ~chunk.has_topic
             THEN _prepare_from(chunks, topic, k + 1, buckets)
             ELSE IF qa = None
             THEN _prepare_from(chunks, topic, k + 1, buckets)
             ELSE LET diff_level == _difficulty_from_length(qa[3])
                  IN  _prepare_from(chunks, topic, k + 1,
                          [buckets EXCEPT ![diff_level] =
                              Append(@, Question(Len(buckets[0]) + Len(buckets[1]) + Len(buckets[2]) + 1,
                                                 qa[1], qa[2], diff_level))])

\* the buckets before the shuffle
_prepare_questions(chunks, topic) ==
    _prepare_from(chunks, topic, 1, [l \in Levels |-> <<>>])

\* the diff_score (line 102) of the chunks that the loop of _prepare_questions
\* turns into questions, in the order of creation of the questions
RECURSIVE _source_words_from(_, _, _, _)
_source_words_from(chunks, topic, k, acc) ==
    IF k > Len(chunks) THEN acc
    ELSE IF topic # "None" /\ ~chunks[k].has_topic
    THEN _source_words_from(chunks, topic, k + 1, acc)
    ELSE IF _generate_question_from_chunk(chunks[k]) = None
    THEN _source_words_from(chunks, topic, k + 1, acc)
    ELSE _source_words_from(chunks, topic, k + 1,
                            Append(acc, _generate_question_from_chunk(chunks[k])[3]))

_source_words(chunks, topic) == _source_words_from(chunks, topic, 1, <<>>)

\* random.shuffle: every ordering of the list
Shuffles(list) ==
    LET n == Len(list)
    IN  {[k \in 1..n |-> list[p[k]]] : p \in {f \in [1..n -> 1..n] :
                                              \A x, y \in 1..n : x # y => f[x] # f[y]}}

(* --------------------------- split_into_chunks ------------------------- *)
MaxPieces == 6      \* pieces a text is put together from
MaxLength == 3      \* largest max_length passed to split_into_chunks

\* the pieces texts are put together from: a word, a word ending a sentence,
\* a space and a paragraph break
Pieces == { <<"a">>, <<"a", ".">>, <<" ">>, <<"\n", "\n">> }

RECURSIVE Concat(_)
Concat(seqs) == IF seqs = <<>> THEN <<>> ELSE Head(seqs) \o Concat(Tail(seqs))

\* the texts split_into_chunks is called with
Texts == {Concat(ps) : ps \in UNION {[1..n -> Pieces] : n \in 0..MaxPieces}}

\* [.!?]
SentenceEnd == {".", "!", "?"}

\* number of newline characters s starts with
RECURSIVE NewlineRun(_)
NewlineRun(s) == IF s # <<>> /\ Head(s) = "\n" THEN 1 + NewlineRun(Tail(s)) ELSE 0

\* re.split(r"\n{2,}", text), continued with cur the piece being read
RECURSIVE re_split_paragraphs(_, _, _)
re_split_paragraphs(s, cur, acc) ==
    IF s = <<>> THEN Append(acc, cur)
    ELSE IF NewlineRun(s) >= 2
    THEN re_split_paragraphs(SubSeq(s, NewlineRun(s) + 1, Len(s)), <<>>, Append(acc, cur))
    ELSE re_split_paragraphs(Tail(s), Append(cur, Head(s)), acc)

\* line 49: [p.strip() for p in re.split(r"\n{2,}", text) if p.strip()]
paragraphs_of(t) ==
    LET parts == re_split_paragraphs(t, <<>>, <<>>)
    IN  SelectSeq([k \in 1..Len(parts) |-> strip(parts[k])], LAMBDA x : x # <<>>)

\* re.split(r"(?<=[.!?])\s+", para), continued with cur the piece being read:
\* a run of whitespace that follows a sentence end is a separator
RECURSIVE re_split_sentences(_, _, _)
re_split_sentences(s, cur, acc) ==
    IF s = <<>> THEN Append(acc, cur)
    ELSE IF Head(s) \in Whitespace /\ cur # <<>> /\ cur[Len(cur)] \in SentenceEnd
    THEN re_split_sentences(lstrip(s), <<>>, Append(acc, cur))
    ELSE re_split_sentences(Tail(s), Append(cur, Head(s)), acc)

\* line 56
sentences_of(para) == re_split_sentences(para, <<>>, <<>>)

\* lines 57-68: the greedy packing of the sentences of one long paragraph
RECURSIVE pack_sentences(_, _, _, _)
pack_sentences(sentences, buf, acc, max) ==
    IF sentences = <<>>
    THEN IF buf # <<>> THEN Append(acc, buf) ELSE acc
    ELSE LET sent == Head(sentences)
         IN  IF sent = <<>>
             THEN pack_sentences(Tail(sentences), buf, acc, max)
             ELSE IF Len(buf) + Len(sent) + 1 <= max
             THEN pack_sentences(Tail(sentences), strip(buf \o <<" ">> \o sent), acc, max)
             ELSE pack_sentences(Tail(sentences), sent,
                                 IF buf # <<>> THEN Append(acc, buf) ELSE acc, max)

\* lines 50-68: the chunks before the merge
RECURSIVE first_pass(_, _, _)
first_pass(paragraphs, acc, max) ==
    IF paragraphs = <<>> THEN acc
    ELSE LET para == Head(paragraphs)
         IN  IF Len(para) <= max
             THEN first_pass(Tail(paragraphs), Append(acc, para), max)
             ELSE first_pass(Tail(paragraphs),
                             pack_sentences(sentences_of(para), <<>>, acc, max), max)

\* variant of merge_pass: small chunks are merged whatever the length of the result
RECURSIVE merge_pass_no_limit(_, _, _, _, _)
merge_pass_no_limit(cs, buf, acc, min, max) ==
    IF cs = <<>>
    THEN IF buf # <<>> THEN Append(acc, buf) ELSE acc
    ELSE LET chunk == Head(cs)
         IN  IF Len(buf) < min \/ Len(chunk) < min
             THEN merge_pass_no_limit(Tail(cs), strip(buf \o <<" ">> \o chunk), acc, min, max)
             ELSE merge_pass_no_limit(Tail(cs), <<>>,
                      Append(IF buf # <<>> THEN Append(acc, buf) ELSE acc, chunk), min, max)

\* variant of merge_pass: the buffer is dropped, not flushed, when a chunk does
\* not fit
RECURSIVE merge_pass_drops(_, _, _, _, _)
merge_pass_drops(cs, buf, acc, min, max) ==
    IF cs = <<>>
    THEN IF buf # <<>> THEN Append(acc, buf) ELSE acc
    ELSE LET chunk == Head(cs)
         IN  IF Len(buf) + Len(chunk) + 1 <= max /\ (Len(buf) < min \/ Len(chunk) < min)
             THEN merge_pass_drops(Tail(cs), strip(buf \o <<" ">> \o chunk), acc, min, max)
             ELSE merge_pass_drops(Tail(cs), <<>>, Append(acc, chunk), min, max)

\* lines 70-82: the merge of small chunks
RECURSIVE merge_pass(_, _, _, _, _)
merge_pass(cs, buf, acc, min, max) ==
    IF cs = <<>>
    THEN IF buf # <<>> THEN Append(acc, buf) ELSE acc
    ELSE LET chunk == Head(cs)
         IN  IF Len(buf) + Len(chunk) + 1 <= max /\ (Len(buf) < min \/ Len(chunk) < min)
             THEN merge_pass(Tail(cs), strip(buf \o <<" ">> \o chunk), acc, min, max)
             ELSE merge_pass(Tail(cs), <<>>,
                      Append(IF buf # <<>> THEN Append(acc, buf) ELSE acc, chunk), min, max)

(* ----------------------------- the session ----------------------------- *)
VARIABLES
    created,            \* the buckets _prepare_questions filled, before the shuffle
    questions_by_level, \* self.questions_by_level
    current_level,      \* self.current_level
    correct_count,      \* self.correct_count
    incorrect_count,    \* self.incorrect_count
    pc,                 \* position of the caller inside ask ("idle": not in ask)
    i,                  \* loop variable of ask (-1: not bound yet)
    num_questions,      \* argument of the running ask call
    quiet,              \* argument of the running ask call
    q,                  \* local q of ask
    user_answer,        \* local user_answer of ask
    out,                \* lines written to standard output by the running call
    reads,              \* number of input() calls made so far
    served,             \* ids of the questions popped so far, in order
    error,              \* exception raised out of ask ("none" if none)
    calls,              \* number of ask calls started
    twin,               \* the same session driven by the same calls and answers,
                        \* but with the opposite quiet flag
    source_words,       \* source_words[id]: word count of the chunk question id
                        \* was generated from
    text,               \* argument of split_into_chunks
    min_length,         \* argument of split_into_chunks
    max_length,         \* argument of split_into_chunks
    chunks,             \* local chunks of split_into_chunks (the first pass)
    merged,             \* local merged of split_into_chunks (the value returned)
    stage               \* position inside split_into_chunks ("off": no call)

\* the variables of a split_into_chunks call
chunker_vars == <<text, min_length, max_length, chunks, merged, stage>>

\* the variables of a session, without those of its ask call
session_consts == <<created, source_words>>

vars == <<created, questions_by_level, current_level, correct_count,
          incorrect_count, pc, i, num_questions, quiet, q, user_answer, out,
          reads, served, error, calls, twin, source_words, chunker_vars>>

\* user input lines
AnswerPool == { <<>>, <<" ">>, <<" ", "A", "b", "\n">>, <<"b", "b">> }

\* one line on standard output
Line(kind, a, b) == [kind |-> kind, a |-> a, b |-> b]

\* the session and the frame of its ask call, as one record
Self ==
    [questions_by_level |-> questions_by_level, current_level |-> current_level,
     correct_count |-> correct_count, incorrect_count |-> incorrect_count,
     pc |-> pc, i |-> i, num_questions |-> num_questions, quiet |-> quiet,
     q |-> q, user_answer |-> user_answer, out |-> out, reads |-> reads,
     served |-> served, error |-> error]

\* the session becomes s, a value computed once
Becomes(s) ==
    \E r \in {s} :
       /\ questions_by_level' = r.questions_by_level
       /\ current_level' = r.current_level
       /\ correct_count' = r.correct_count
       /\ incorrect_count' = r.incorrect_count
       /\ pc' = r.pc
       /\ i' = r.i
       /\ num_questions' = r.num_questions
       /\ quiet' = r.quiet
       /\ q' = r.q
       /\ user_answer' = r.user_answer
       /\ out' = r.out
       /\ reads' = r.reads
       /\ served' = r.served
       /\ error' = r.error

\* print(...) unless quiet
Emit(s, lines) == IF s.quiet THEN s.out ELSE s.out \o lines

\* QuizSession.__init__ after _prepare_questions, for one outcome of the shuffles
NewSession(buckets) ==
    [questions_by_level |-> buckets, current_level |-> 1,
     correct_count |-> 0, incorrect_count |-> 0,
     pc |-> "idle", i |-> -1, num_questions |-> 0, quiet |-> FALSE,
     q |-> NoQuestion, user_answer |-> <<>>, out |-> <<>>, reads |-> 0,
     served |-> <<>>, error |-> "none"]

\* variant of ask_enter: every call starts from the level and counters of a
\* new session
ask_enter_resets(s, n, qu) ==
    [s EXCEPT !.pc = "for", !.i = -1, !.num_questions = n, !.quiet = qu,
              !.q = NoQuestion, !.user_answer = <<>>, !.out = <<>>,
              !.current_level = 1, !.correct_count = 0, !.incorrect_count = 0]

\* entry of ask(num_questions, quiet)
ask_enter(s, n, qu) ==
    [s EXCEPT !.pc = "for", !.i = -1, !.num_questions = n, !.quiet = qu,
              !.q = NoQuestion, !.user_answer = <<>>, !.out = <<>>]

\* variant of ask_for: the loop runs over range(num_questions + 1)
ask_for_one_more(s) ==
    IF s.i + 1 < s.num_questions + 1
    THEN [s EXCEPT !.i = s.i + 1, !.pc = "select"]
    ELSE [s EXCEPT !.pc = "summary"]

\* for i in range(num_questions)
ask_for(s) ==
    IF s.i + 1 < s.num_questions
    THEN [s EXCEPT !.i = s.i + 1, !.pc = "select"]
    ELSE [s EXCEPT !.pc = "summary"]

\* variant of MaxByLen: the last level of the list with the largest key
RECURSIVE MaxByLen_last(_, _, _)
MaxByLen_last(levels, best, buckets) ==
    IF levels = <<>> THEN best
    ELSE MaxByLen_last(Tail(levels),
                       IF Len(buckets[Head(levels)]) >= Len(buckets[best])
                       THEN Head(levels) ELSE best,
                       buckets)

\* max(remaining_levels, key=...): the first level of the list with the largest key
RECURSIVE MaxByLen(_, _, _)
MaxByLen(levels, best, buckets) ==
    IF levels = <<>> THEN best
    ELSE MaxByLen(Tail(levels),
                  IF Len(buckets[Head(levels)]) > Len(buckets[best])
                  THEN Head(levels) ELSE best,
                  buckets)

\* variant of ask_select: an empty current bucket ends the loop, no reselection
ask_select_no_reselect(s) ==
    IF s.questions_by_level[s.current_level] = <<>>
    THEN [s EXCEPT !.out = Emit(s, <<Line("no_more", 0, 0)>>), !.pc = "summary"]
    ELSE [s EXCEPT !.pc = "pop"]

\* variant of ask_select: the level is never reselected and the loop never left
ask_select_skips(s) == [s EXCEPT !.pc = "pop"]

\* lines 128-136 of ask: keep the level, reselect it, or break
ask_select(s) ==
    IF s.questions_by_level[s.current_level] = <<>>
    THEN LET remaining_levels ==
                 SelectSeq(<<0, 1, 2>>, LAMBDA lvl : s.questions_by_level[lvl] # <<>>)
         IN  IF remaining_levels = <<>>
             THEN [s EXCEPT !.out = Emit(s, <<Line("no_more", 0, 0)>>),
                            !.pc = "summary"]
             ELSE [s EXCEPT !.current_level =
                                MaxByLen(Tail(remaining_levels), Head(remaining_levels),
                                         s.questions_by_level),
                            !.pc = "pop"]
    ELSE [s EXCEPT !.pc = "pop"]

\* variant of ask_pop: reads the last element without removing it
ask_pop_peek(s) ==
    LET bucket == s.questions_by_level[s.current_level]
        popped == bucket[Len(bucket)]
    IN  [s EXCEPT !.q = popped,
                  !.served = Append(s.served, popped.id),
                  !.out = Emit(s, <<Line("question", s.i + 1, s.current_level),
                                    Line("text", popped.id, 0)>>),
                  !.pc = "input"]

\* lines 137-140 of ask: list.pop() takes the last element
ask_pop(s) ==
    LET bucket == s.questions_by_level[s.current_level]
        popped == bucket[Len(bucket)]
    IN  [s EXCEPT !.questions_by_level[s.current_level] = SubSeq(bucket, 1, Len(bucket) - 1),
                  !.q = popped,
                  !.served = Append(s.served, popped.id),
                  !.out = Emit(s, <<Line("question", s.i + 1, s.current_level),
                                     Line("text", popped.id, 0)>>),
                  !.pc = "input"]

\* line 141 of ask: input("Your answer: ") writes its prompt, then reads a line
ask_input(s, line) ==
    [s EXCEPT !.out = Append(s.out, Line("prompt", 0, 0)),
              !.reads = s.reads + 1,
              !.user_answer = line,
              !.pc = "grade"]

\* variant of ask_grade: the level is moved without the range tests
ask_grade_unclamped(s) ==
    IF _check_answer(s.user_answer, s.q.answer)
    THEN [s EXCEPT !.out = Emit(s, <<Line("correct", 0, 0)>>),
                   !.correct_count = s.correct_count + 1,
                   !.current_level = s.current_level + 1,
                   !.pc = "for"]
    ELSE [s EXCEPT !.out = Emit(s, <<Line("incorrect", s.q.id, 0)>>),
                   !.incorrect_count = s.incorrect_count + 1,
                   !.current_level = s.current_level - 1,
                   !.pc = "for"]

\* variant of ask_grade: the level moves down on correct and up on incorrect
ask_grade_swapped(s) ==
    IF _check_answer(s.user_answer, s.q.answer)
    THEN [s EXCEPT !.out = Emit(s, <<Line("correct", 0, 0)>>),
                   !.correct_count = s.correct_count + 1,
                   !.current_level = IF s.current_level > 0
                                     THEN s.current_level - 1 ELSE s.current_level,
                   !.pc = "for"]
    ELSE [s EXCEPT !.out = Emit(s, <<Line("incorrect", s.q.id, 0)>>),
                   !.incorrect_count = s.incorrect_count + 1,
                   !.current_level = IF s.current_level < 2
                                     THEN s.current_level + 1 ELSE s.current_level,
                   !.pc = "for"]

\* variant of ask_grade: the counters and the level are updated under "if not quiet"
ask_grade_quiet_skips(s) ==
    IF s.quiet THEN [s EXCEPT !.pc = "for"]
    ELSE IF _check_answer(s.user_answer, s.q.answer)
    THEN [s EXCEPT !.out = Emit(s, <<Line("correct", 0, 0)>>),
                   !.correct_count = s.correct_count + 1,
                   !.current_level = IF s.current_level < 2
                                     THEN s.current_level + 1 ELSE s.current_level,
                   !.pc = "for"]
    ELSE [s EXCEPT !.out = Emit(s, <<Line("incorrect", s.q.id, 0)>>),
                   !.incorrect_count = s.incorrect_count + 1,
                   !.current_level = IF s.current_level > 0
                                     THEN s.current_level - 1 ELSE s.current_level,
                   !.pc = "for"]

\* variant of ask_grade: a blank answer is asked for a second time before grading
ask_grade_reprompt(s) ==
    IF _check_answer(s.user_answer, s.q.answer)
    THEN [s EXCEPT !.out = Emit(s, <<Line("correct", 0, 0)>>),
                   !.correct_count = s.correct_count + 1,
                   !.current_level = IF s.current_level < 2
                                     THEN s.current_level + 1 ELSE s.current_level,
                   !.pc = "for"]
    ELSE [s EXCEPT !.out = Emit(s, <<Line("incorrect", s.q.id, 0)>>),
                   !.reads = IF strip(s.user_answer) = <<>> THEN s.reads + 1 ELSE s.reads,
                   !.incorrect_count = s.incorrect_count + 1,
                   !.current_level = IF s.current_level > 0
                                     THEN s.current_level - 1 ELSE s.current_level,
                   !.pc = "for"]

\* variant of ask_grade: a blank answer is skipped, neither counted nor graded
ask_grade_skips_blank(s) ==
    IF strip(s.user_answer) = <<>> THEN [s EXCEPT !.pc = "for"]
    ELSE IF _check_answer(s.user_answer, s.q.answer)
    THEN [s EXCEPT !.out = Emit(s, <<Line("correct", 0, 0)>>),
                   !.correct_count = s.correct_count + 1,
                   !.current_level = IF s.current_level < 2
                                     THEN s.current_level + 1 ELSE s.current_level,
                   !.pc = "for"]
    ELSE [s EXCEPT !.out = Emit(s, <<Line("incorrect", s.q.id, 0)>>),
                   !.incorrect_count = s.incorrect_count + 1,
                   !.current_level = IF s.current_level > 0
                                     THEN s.current_level - 1 ELSE s.current_level,
                   !.pc = "for"]

\* variant of ask_grade: an incorrect answer is counted in both counters
ask_grade_counts_twice(s) ==
    IF _check_answer(s.user_answer, s.q.answer)
    THEN [s EXCEPT !.out = Emit(s, <<Line("correct", 0, 0)>>),
                   !.correct_count = s.correct_count + 1,
                   !.current_level = IF s.current_level < 2
                                     THEN s.current_level + 1 ELSE s.current_level,
                   !.pc = "for"]
    ELSE [s EXCEPT !.out = Emit(s, <<Line("incorrect", s.q.id, 0)>>),
                   !.correct_count = s.correct_count + 1,
                   !.incorrect_count = s.incorrect_count + 1,
                   !.current_level = IF s.current_level > 0
                                     THEN s.current_level - 1 ELSE s.current_level,
                   !.pc = "for"]

\* lines 142-155 of ask
ask_grade(s) ==
    IF _check_answer(s.user_answer, s.q.answer)
    THEN [s EXCEPT !.out = Emit(s, <<Line("correct", 0, 0)>>),
                   !.correct_count = s.correct_count + 1,
                   !.current_level = IF s.current_level < 2
                                     THEN s.current_level + 1 ELSE s.current_level,
                   !.pc = "for"]
    ELSE [s EXCEPT !.out = Emit(s, <<Line("incorrect", s.q.id, 0)>>),
                   !.incorrect_count = s.incorrect_count + 1,
                   !.current_level = IF s.current_level > 0
                                     THEN s.current_level - 1 ELSE s.current_level,
                   !.pc = "for"]

\* f"{a / b:.1f}" in tenths: a / b rounded to one decimal, ties to even
FormatTenths(a, b) ==
    LET n  == 10 * a
        fl == n \div b
        r2 == 2 * (n % b)
    IN  IF r2 > b THEN fl + 1
        ELSE IF r2 < b THEN fl
        ELSE IF fl % 2 = 0 THEN fl ELSE fl + 1

\* variant of _print_summary: the accuracy is computed without the test of
\* total_answered
_print_summary_unguarded(s) ==
    LET total_answered == s.correct_count + s.incorrect_count
        head == <<Line("complete", 0, 0),
                  Line("attempted", total_answered, 0),
                  Line("correct_answers", s.correct_count, 0),
                  Line("incorrect_answers", s.incorrect_count, 0)>>
    IN  IF total_answered = 0
        THEN [s EXCEPT !.out = s.out \o head, !.error = "ZeroDivisionError"]
        ELSE [s EXCEPT !.out = s.out \o head \o
                 <<Line("accuracy",
                        FormatTenths(100 * s.correct_count, total_answered), 0)>>]

\* QuizSession._print_summary: the lines printed; the division a / b raises
\* ZeroDivisionError when b is 0
_print_summary(s) ==
    LET total_answered == s.correct_count + s.incorrect_count
        head == <<Line("complete", 0, 0),
                  Line("attempted", total_answered, 0),
                  Line("correct_answers", s.correct_count, 0),
                  Line("incorrect_answers", s.incorrect_count, 0)>>
    IN  IF total_answered # 0
        THEN IF total_answered = 0
             THEN [s EXCEPT !.out = s.out \o head, !.error = "ZeroDivisionError"]
             ELSE [s EXCEPT !.out = s.out \o head \o
                      <<Line("accuracy",
                             FormatTenths(100 * s.correct_count, total_answered), 0)>>]
        ELSE [s EXCEPT !.out = s.out \o head]

\* lines 156-157 of ask, and the return
ask_summary(s) ==
    LET t == IF s.quiet THEN s ELSE _print_summary(s)
    IN  [t EXCEPT !.pc = "idle", !.i = -1, !.q = NoQuestion, !.user_answer = <<>>]

(* ------------------------------ actions -------------------------------- *)
\* what the twin does when the session takes a step: the step of its own position
TwinStep(t, line) ==
    CASE t.pc = "for"     -> ask_for(t)
      [] t.pc = "select"  -> ask_select(t)
      [] t.pc = "pop"     -> ask_pop(t)
      [] t.pc = "input"   -> ask_input(t, line)
      [] t.pc = "grade"   -> ask_grade(t)
      [] t.pc = "summary" -> ask_summary(t)
      [] OTHER            -> t

\* no split_into_chunks call is being looked at
NoChunkerCall ==
    /\ text = <<>>
    /\ min_length = 0
    /\ max_length = 0
    /\ chunks = <<>>
    /\ merged = <<>>
    /\ stage = "off"

\* The chunk sequences sessions are built from.  Sequences that differ only in
\* the order of their chunks give the same buckets up to the order inside a
\* bucket, which the shuffle makes arbitrary anyway, and up to the numbering of
\* the questions; one order (by word count) is taken for each.
ChunkSeqs ==
    {c \in UNION {[1..n -> ChunkPool] : n \in 0..MaxChunks} :
        \A k \in 1..(Len(c) - 1) : c[k].word_count <= c[k + 1].word_count}

\* QuizSession(notes, topic) for every chunk sequence, topic and shuffle
Init ==
    /\ \E cs \in ChunkSeqs, topic \in Topics :
          /\ created = _prepare_questions(cs, topic)
          /\ source_words = _source_words(cs, topic)
    /\ \E b0 \in Shuffles(created[0]),
          b1 \in Shuffles(created[1]),
          b2 \in Shuffles(created[2]) :
          LET s == NewSession([l \in Levels |-> IF l = 0 THEN b0
                                                ELSE IF l = 1 THEN b1 ELSE b2])
          IN  /\ questions_by_level = s.questions_by_level
              /\ current_level = s.current_level
              /\ correct_count = s.correct_count
              /\ incorrect_count = s.incorrect_count
              /\ pc = s.pc
              /\ i = s.i
              /\ num_questions = s.num_questions
              /\ quiet = s.quiet
              /\ q = s.q
              /\ user_answer = s.user_answer
              /\ out = s.out
              /\ reads = s.reads
              /\ served = s.served
              /\ error = s.error
              /\ twin = s
    /\ calls = 0
    /\ NoChunkerCall

\* session.ask(num_questions=n, quiet=qu)
Ask ==
    /\ pc = "idle"
    /\ error = "none"
    /\ calls < MaxCalls
    /\ \E n \in 0..MaxNum, qu \in BOOLEAN :
          /\ Becomes(ask_enter(Self, n, qu))
          /\ twin' = ask_enter(twin, n, ~qu)
    /\ calls' = calls + 1
    /\ UNCHANGED <<session_consts, chunker_vars>>

For ==
    /\ pc = "for"
    /\ Becomes(ask_for(Self))
    /\ twin' = TwinStep(twin, <<>>)
    /\ UNCHANGED <<session_consts, calls, chunker_vars>>

Select ==
    /\ pc = "select"
    /\ Becomes(ask_select(Self))
    /\ twin' = TwinStep(twin, <<>>)
    /\ UNCHANGED <<session_consts, calls, chunker_vars>>

Pop ==
    /\ pc = "pop"
    /\ Becomes(ask_pop(Self))
    /\ twin' = TwinStep(twin, <<>>)
    /\ UNCHANGED <<session_consts, calls, chunker_vars>>

Input ==
    /\ pc = "input"
    /\ \E line \in AnswerPool :
          /\ Becomes(ask_input(Self, line))
          /\ twin' = TwinStep(twin, line)
    /\ UNCHANGED <<session_consts, calls, chunker_vars>>

Grade ==
    /\ pc = "grade"
    /\ Becomes(ask_grade(Self))
    /\ twin' = TwinStep(twin, <<>>)
    /\ UNCHANGED <<session_consts, calls, chunker_vars>>

Summary ==
    /\ pc = "summary"
    /\ Becomes(ask_summary(Self))
    /\ twin' = TwinStep(twin, <<>>)
    /\ UNCHANGED <<session_consts, calls, chunker_vars>>

Next == Ask \/ For \/ Select \/ Pop \/ Input \/ Grade \/ Summary

Spec == Init /\ [][Next]_vars

\* the session under the scheduling of a sequential program: a step that can be
\* taken is taken (every input() call returns, the caller goes on)
FairSpec == Spec /\ WF_vars(Next)

(* ------------------- split_into_chunks as a state machine -------------- *)
\* a call split_into_chunks(text, min_length, max_length) with
\* min_length <= max_length, on a session that plays no part
InitChunks ==
    /\ text \in Texts
    /\ max_length \in 1..MaxLength
    /\ min_length \in 0..max_length
    /\ chunks = <<>>
    /\ merged = <<>>
    /\ stage = "called"
    /\ created = [l \in Levels |-> <<>>]
    /\ source_words = <<>>
    /\ LET s == NewSession([l \in Levels |-> <<>>])
       IN  /\ questions_by_level = s.questions_by_level
           /\ current_level = s.current_level
           /\ correct_count = s.correct_count
           /\ incorrect_count = s.incorrect_count
           /\ pc = s.pc
           /\ i = s.i
           /\ num_questions = s.num_questions
           /\ quiet = s.quiet
           /\ q = s.q
           /\ user_answer = s.user_answer
           /\ out = s.out
           /\ reads = s.reads
           /\ served = s.served
           /\ error = s.error
           /\ twin = s
    /\ calls = 0

quiz_vars == <<created, questions_by_level, current_level, correct_count,
               incorrect_count, pc, i, num_questions, quiet, q, user_answer,
               out, reads, served, error, calls, twin, source_words>>

\* lines 49-68 of split_into_chunks
FirstPass ==
    /\ stage = "called"
    /\ chunks' = first_pass(paragraphs_of(text), <<>>, max_length)
    /\ stage' = "merging"
    /\ UNCHANGED <<text, min_length, max_length, merged, quiz_vars>>

\* lines 70-82 of split_into_chunks
MergePass ==
    /\ stage = "merging"
    /\ merged' = merge_pass(chunks, <<>>, <<>>, min_length, max_length)
    /\ stage' = "returned"
    /\ UNCHANGED <<text, min_length, max_length, chunks, quiz_vars>>

NextChunks == FirstPass \/ MergePass

SpecChunks == InitChunks /\ [][NextChunks]_vars

(* ---------------------------- properties ------------------------------- *)
\* number of questions held in the three buckets
Remaining == Len(questions_by_level[0]) + Len(questions_by_level[1])
             + Len(questions_by_level[2])

\* number of questions created at setup
Total == Len(created[0]) + Len(created[1]) + Len(created[2])

Min(a, b) == IF a <= b THEN a ELSE b
Max(a, b) == IF a >= b THEN a ELSE b

\* C1: current_level is 0, 1 or 2 in every state of a session, whatever the
\* buckets hold, whatever num_questions is and however the answers are graded.
C1_LevelInRange == current_level \in {0, 1, 2}

\* a session whose medium bucket is empty has reselected the hard level, has
\* served from it and has been graded on it
C1_Witness ==
    /\ pc = "for"
    /\ created[1] = <<>>
    /\ Len(served) = 1
    /\ current_level = 2
    /\ correct_count = 1

\* C2: every question created at setup is either held once, in the bucket it
\* was put in at setup, or has been popped once; it is never in two places,
\* never served twice and never back in a bucket after it was popped.
C2_OneBucketThenGone ==
    LET all  == created[0] \o created[1] \o created[2]
        held    == questions_by_level[0] \o questions_by_level[1] \o questions_by_level[2]
    IN  /\ \A c \in 1..Len(all) :
              Cardinality({k \in 1..Len(held) : held[k].id = all[c].id})
              + Cardinality({k \in 1..Len(served) : served[k] = all[c].id}) = 1
        /\ \A l \in Levels : \A k \in 1..Len(questions_by_level[l]) :
              \E m \in 1..Len(created[l]) : questions_by_level[l][k] = created[l][m]
        /\ \A k \in 1..Len(served) : \E c \in 1..Len(all) : all[c].id = served[k]

\* two questions have been served and another one is still held
C2_Witness ==
    /\ Len(served) = 2
    /\ Remaining = 1
    /\ pc = "idle"

\* C3: the selection step of an iteration leaves current_level alone when its
\* bucket is non-empty; when it is empty and some bucket is not, it goes on to
\* the pop with current_level set to the lowest of the levels that hold the
\* largest number of questions.
C3_Reselection ==
    [][pc = "select" =>
          IF questions_by_level[current_level] # <<>>
          THEN pc' = "pop" /\ current_level' = current_level
          ELSE IF Remaining > 0
          THEN /\ pc' = "pop"
               /\ questions_by_level[current_level'] # <<>>
               /\ \A l \in Levels :
                     /\ Len(questions_by_level[l]) <= Len(questions_by_level[current_level'])
                     /\ l < current_level' =>
                           Len(questions_by_level[l]) < Len(questions_by_level[current_level'])
          ELSE pc' = "summary" /\ current_level' = current_level]_vars

\* a new session with an empty medium bucket and as many easy as hard questions
\* has reselected the easy level
C3_Witness ==
    /\ pc = "pop"
    /\ served = <<>>
    /\ current_level = 0
    /\ questions_by_level[1] = <<>>
    /\ questions_by_level[0] # <<>>
    /\ Len(questions_by_level[0]) = Len(questions_by_level[2])

\* C4: grading a question popped from level s moves current_level to
\* min(s + 1, 2) and adds one to correct_count only when the answer is graded
\* correct, and to max(s - 1, 0) and adds one to incorrect_count only when it
\* is graded incorrect.
C4_GradeStep ==
    [][pc = "grade" =>
          IF _check_answer(user_answer, q.answer)
          THEN /\ current_level' = Min(q.difficulty + 1, 2)
               /\ correct_count' = correct_count + 1
               /\ incorrect_count' = incorrect_count
          ELSE /\ current_level' = Max(q.difficulty - 1, 0)
               /\ incorrect_count' = incorrect_count + 1
               /\ correct_count' = correct_count]_vars

\* a hard question was graded correct and an easy one incorrect
C4_Witness ==
    /\ pc = "for"
    /\ correct_count = 1
    /\ incorrect_count = 1
    /\ current_level = 0
    /\ q.difficulty = 0
    /\ created[1] = <<>>

\* C5 as stated: from a new session, for any distribution of the questions, a
\* correct answer to the first question moves current_level to 2, a further
\* correct answer leaves it at 2, and an incorrect answer given at level 0
\* leaves it at 0.
C5_AnyDistribution ==
    [][pc = "grade" =>
          /\ (Len(served) = 1 /\ correct_count' = 1) => current_level' = 2
          /\ (Len(served) = 2 /\ correct_count' = 2) => current_level' = 2
          /\ (current_level = 0 /\ incorrect_count' = incorrect_count + 1)
                => current_level' = 0]_vars

\* C5 (amended): from a new session whose medium bucket is non-empty a correct
\* answer to the first question moves current_level to 2; if the hard bucket
\* is non-empty as well, a further correct answer leaves it at 2; an incorrect
\* answer given at level 0 leaves it at 0.
C5_Adaptation ==
    [][pc = "grade" =>
          /\ (Len(served) = 1 /\ correct_count' = 1 /\ created[1] # <<>>)
                => current_level' = 2
          /\ (Len(served) = 2 /\ correct_count' = 2 /\ created[1] # <<>> /\ created[2] # <<>>)
                => current_level' = 2
          /\ (current_level = 0 /\ incorrect_count' = incorrect_count + 1)
                => current_level' = 0]_vars

\* a medium and then a hard question were both answered correctly
C5_Witness ==
    /\ pc = "for"
    /\ Len(served) = 2
    /\ correct_count = 2
    /\ current_level = 2
    /\ q.difficulty = 2
    /\ created[1] # <<>>

\* C6: the first ask call on a session that holds Total questions serves
\* min(num_questions, Total) of them; it leaves its loop before num_questions
\* iterations only when the three buckets are empty.
C6_ServesMin ==
    calls = 1 =>
        /\ pc = "summary" => (i + 1 = num_questions \/ Remaining = 0)
        /\ pc \in {"summary", "idle"} =>
              /\ Len(served) = Min(num_questions, Total)
              /\ correct_count + incorrect_count = Min(num_questions, Total)

\* the first call asked for three questions, the session held two
C6_Witness ==
    /\ calls = 1
    /\ pc = "idle"
    /\ num_questions = 3
    /\ Total = 2
    /\ correct_count + incorrect_count = 2

\* C7: no ask call raises ZeroDivisionError; a summary printed with nothing
\* answered has no accuracy line, a summary printed with something answered
\* has one accuracy line showing 100 * correct_count / total to one decimal,
\* and a quiet call prints no accuracy line.
C7_SummaryAccuracy ==
    LET total == correct_count + incorrect_count
        acc   == SelectSeq(out, LAMBDA ln : ln.kind = "accuracy")
    IN  /\ error = "none"
        /\ (pc = "idle" /\ calls > 0 /\ ~quiet /\ total = 0) => acc = <<>>
        /\ (pc = "idle" /\ calls > 0 /\ ~quiet /\ total > 0) =>
              /\ Len(acc) = 1
              /\ 2 * (10 * acc[1].a * total - 10000 * correct_count) <= 10 * total
              /\ 2 * (10000 * correct_count - 10 * acc[1].a * total) <= 10 * total
        /\ (quiet \/ pc # "idle") => acc = <<>>

\* a call that was to ask questions has printed its summary with nothing answered
C7_Witness ==
    /\ pc = "idle"
    /\ calls > 0
    /\ ~quiet
    /\ num_questions > 0
    /\ correct_count + incorrect_count = 0
    /\ \E k \in 1..Len(out) : out[k].kind = "attempted" /\ out[k].a = 0

\* C8: a session driven with quiet and the same session driven by the same
\* calls and answers without quiet are at the same position with the same
\* level, counters, bucket contents, current question and served questions.
C8_QuietIndependent ==
    /\ calls > 0 => twin.quiet = ~quiet
    /\ twin.pc = pc
    /\ twin.i = i
    /\ twin.current_level = current_level
    /\ twin.correct_count = correct_count
    /\ twin.incorrect_count = incorrect_count
    /\ twin.questions_by_level = questions_by_level
    /\ twin.q = q
    /\ twin.served = served
    /\ twin.reads = reads

\* a quiet call has served and graded two questions, with both outcomes
C8_Witness ==
    /\ quiet
    /\ pc = "idle"
    /\ calls = 1
    /\ correct_count = 1
    /\ incorrect_count = 1
    /\ ~twin.quiet

\* C9: a call with quiet = true writes nothing to the output.
C9_QuietSilent == (calls > 0 /\ quiet) => out = <<>>

\* C10: input() has been called once for every question popped, except for
\* the question popped last while its answer is still to be read, and every
\* answer read has been graded except the one read last while it is still to
\* be graded; an iteration that serves nothing reads nothing.
C10_OneReadPerQuestion ==
    /\ reads = Len(served) - (IF pc = "input" THEN 1 ELSE 0)
    /\ correct_count + incorrect_count = reads - (IF pc = "grade" THEN 1 ELSE 0)

\* a call has ended in an iteration that served nothing, after two questions
C10_Witness ==
    /\ pc = "idle"
    /\ calls = 1
    /\ num_questions = 3
    /\ reads = 2
    /\ Remaining = 0
    /\ incorrect_count >= 1

\* C15: every question held in bucket L has difficulty L, and L is 0, 1 or 2 as
\* the word count of its chunk is at most 40, from 41 to 100, or above 100;
\* the word counts 10, 40, 41, 100 and 101 map to 0, 0, 1, 1 and 2.
C15_DifficultyOfBucket ==
    /\ \A l \in Levels : \A k \in 1..Len(questions_by_level[l]) :
          LET w == source_words[questions_by_level[l][k].id]
          IN  /\ questions_by_level[l][k].difficulty = l
              /\ w <= 40 => l = 0
              /\ (41 <= w /\ w <= 100) => l = 1
              /\ w > 100 => l = 2
    /\ <<_difficulty_from_length(10), _difficulty_from_length(40),
         _difficulty_from_length(41), _difficulty_from_length(100),
         _difficulty_from_length(101)>> = <<0, 0, 1, 1, 2>>

\* a question was served and two questions of one level are held in an order
\* other than that of their creation
C15_Witness ==
    /\ Len(served) = 1
    /\ pc = "for"
    /\ \E l \in Levels :
          /\ Len(questions_by_level[l]) = 2
          /\ questions_by_level[l][1].id > questions_by_level[l][2].id

\* C16: grading an empty or whitespace-only answer adds one to incorrect_count
\* only, moves current_level one down unless it is 0, puts nothing back into a
\* bucket, raises nothing and goes on to the next iteration; no answer is
\* correct for an empty stored answer.
C16_BlankIsIncorrect ==
    [][/\ \A u \in AnswerPool : ~_check_answer(u, <<>>)
       /\ (pc = "grade" /\ strip(user_answer) = <<>>) =>
             /\ incorrect_count' = incorrect_count + 1
             /\ correct_count' = correct_count
             /\ current_level' = Max(current_level - 1, 0)
             /\ questions_by_level' = questions_by_level
             /\ served' = served
             /\ error' = "none"
             /\ pc' = "for"]_vars

\* a medium question got a whitespace-only answer and the level went down
C16_Witness ==
    /\ pc = "for"
    /\ user_answer = <<" ">>
    /\ q.difficulty = 1
    /\ current_level = 0
    /\ incorrect_count = 1

\* C17 as stated: in every state the two counters add up to the number of
\* questions popped, which is the number created less the number held.
C17_CountersEqualPopped ==
    /\ correct_count + incorrect_count = Len(served)
    /\ Len(served) = Total - Remaining

\* C17 (amended): the number of questions popped is the number created less
\* the number held; the two counters add up to it, except from the pop of a
\* question to its grading, where they add up to one less; the counters are
\* never negative and never decrease, and the number held goes down by one at
\* each pop and at no other step.
C17_CountersTrackPopped ==
    /\ [](/\ Len(served) = Total - Remaining
          /\ correct_count >= 0
          /\ incorrect_count >= 0
          /\ correct_count + incorrect_count
                = Len(served) - (IF pc \in {"input", "grade"} THEN 1 ELSE 0))
    /\ [][/\ correct_count' >= correct_count
          /\ incorrect_count' >= incorrect_count
          /\ Remaining' = Remaining - (IF pc = "pop" THEN 1 ELSE 0)]_vars

\* the second question has been popped and waits for its answer
C17_Witness ==
    /\ pc = "input"
    /\ Len(served) = 2
    /\ correct_count + incorrect_count = 1

\* C18: a call of ask returns, after it has started at most num_questions
\* iterations.
C18_AskReturns ==
    /\ [](i + 1 <= num_questions)
    /\ (pc # "idle") ~> (pc = "idle")

\* a call for three questions on an exhausted session has returned
C18_Witness ==
    /\ pc = "idle"
    /\ calls = 2
    /\ num_questions = 3
    /\ Total > 0
    /\ Len(served) = Total
    /\ reads = Total
    /\ \E k \in 1..Len(out) : out[k].kind = "no_more"
    /\ \E k \in 1..Len(out) : out[k].kind = "complete"
    /\ ~\E k \in 1..Len(out) : out[k].kind = "prompt"

\* C19: the pop finds a question in the bucket at current_level, and the
\* question being served has the difficulty current_level.
C19_PopFromNonEmpty ==
    /\ pc = "pop" => questions_by_level[current_level] # <<>>
    /\ pc = "input" => (q # NoQuestion /\ q.difficulty = current_level)

\* a new session without medium questions is about to pop from the hard
\* bucket, the fullest one
C19_Witness ==
    /\ pc = "pop"
    /\ served = <<>>
    /\ created[1] = <<>>
    /\ current_level = 2
    /\ Len(questions_by_level[2]) > Len(questions_by_level[0])

\* C20: a call of ask starts with the level, the counters and the buckets the
\* session was left with; no question is served twice over the calls, and the
\* summary of a call shows the counts of all calls so far.
C20_StatePersists ==
    /\ [][(pc = "idle" /\ pc' # "idle") =>
             /\ current_level' = current_level
             /\ correct_count' = correct_count
             /\ incorrect_count' = incorrect_count
             /\ questions_by_level' = questions_by_level
             /\ served' = served]_vars
    /\ [](/\ \A j, k \in 1..Len(served) : served[j] = served[k] => j = k
          /\ (pc = "idle" /\ calls > 0 /\ ~quiet) =>
                \E k \in 1..Len(out) :
                   /\ out[k] = Line("attempted", Len(served), 0)
                   /\ out[k + 1] = Line("correct_answers", correct_count, 0)
                   /\ out[k + 2] = Line("incorrect_answers", incorrect_count, 0)
                   /\ correct_count + incorrect_count = Len(served))

\* the second call served one question after the two of the first call and
\* printed its summary
C20_Witness ==
    /\ calls = 2
    /\ pc = "idle"
    /\ ~quiet
    /\ num_questions = 1
    /\ Len(served) = 3
    /\ \E k \in 1..Len(out) : out[k] = Line("attempted", 3, 0)

(* ---------------------- properties of split_into_chunks ---------------- *)
\* the elements of a sequence
Elements(seq) == {seq[k] : k \in 1..Len(seq)}

\* the paragraphs of text that are longer than max_length
LongParagraphs == {p \in Elements(paragraphs_of(text)) : Len(p) > max_length}

\* the sentences of the paragraphs of text that are longer than max_length
SentencesOfLongParagraphs == UNION {Elements(sentences_of(p)) : p \in LongParagraphs}

\* positions of the returned chunks that are longer than max_length
Oversized == {k \in 1..Len(merged) : Len(merged[k]) > max_length}

\* the characters of s that are not whitespace, in order
NonWhitespace(s) == SelectSeq(s, LAMBDA c : c \notin Whitespace)

\* C11 as stated: when the text has a paragraph longer than max_length with a
\* sentence of length <= max_length, at most one returned chunk is longer than
\* max_length.
C11_AtMostOneOversized ==
    (stage = "returned" /\ \E x \in SentencesOfLongParagraphs : Len(x) <= max_length)
        => Cardinality(Oversized) <= 1

\* C11 (amended): every returned chunk that is longer than max_length is one
\* whole sentence of a paragraph longer than max_length; all other returned
\* chunks have length <= max_length.  Several chunks can be oversized.
C11_OversizedAreSentences ==
    stage = "returned" =>
        \A k \in Oversized : merged[k] \in SentencesOfLongParagraphs

\* a paragraph with a short sentence and two oversized ones has been split
C11_Witness ==
    /\ stage = "returned"
    /\ \E x \in SentencesOfLongParagraphs : Len(x) <= max_length
    /\ Cardinality(Oversized) = 2
    /\ \E k \in 1..Len(merged) : Len(merged[k]) <= max_length

\* C12: the merge pass returns no more chunks than it was given, and two
\* adjacent returned chunks are both shorter than min_length only if joining
\* them with one space gives more than max_length characters.
C12_MergeBounds ==
    stage = "returned" =>
        /\ Len(merged) <= Len(chunks)
        /\ \A k \in 1..(Len(merged) - 1) :
              (Len(merged[k]) < min_length /\ Len(merged[k + 1]) < min_length)
                  => Len(merged[k]) + Len(merged[k + 1]) + 1 > max_length

\* the merge pass as the buffer machine: a chunk that cannot be merged flushes
\* the buffer and becomes the new buffer
RECURSIVE buffer_machine(_, _, _, _, _)
buffer_machine(cs, buf, acc, min, max) ==
    IF cs = <<>>
    THEN IF buf # <<>> THEN Append(acc, buf) ELSE acc
    ELSE LET chunk == Head(cs)
         IN  IF Len(buf) + Len(chunk) + 1 <= max /\ (Len(buf) < min \/ Len(chunk) < min)
             THEN buffer_machine(Tail(cs), strip(buf \o <<" ">> \o chunk), acc, min, max)
             ELSE buffer_machine(Tail(cs), chunk,
                                 IF buf # <<>> THEN Append(acc, buf) ELSE acc, min, max)

\* C13: the chunks returned by the merge pass are those the buffer machine
\* returns for the same chunks.
C13_MergeIsBufferMachine ==
    stage = "returned" =>
        merged = buffer_machine(chunks, <<>>, <<>>, min_length, max_length)

\* C14: the characters of the text other than whitespace are, in order and
\* each once, those of the chunks of the first pass and those of the returned
\* chunks; a text of whitespace only gives no chunk.
C14_ContentPreserved ==
    /\ stage \in {"merging", "returned"} =>
          NonWhitespace(Concat(chunks)) = NonWhitespace(text)
    /\ stage = "returned" =>
          /\ NonWhitespace(Concat(merged)) = NonWhitespace(text)
          /\ NonWhitespace(text) = <<>> => merged = <<>>

\* a long paragraph was split into sentences and two chunks were merged
C14_Witness ==
    /\ stage = "returned"
    /\ LongParagraphs # {}
    /\ Len(merged) >= 2
    /\ Len(merged) < Len(chunks)

====
